---- MODULE Spec2Model ----
(***************************************************************************)
(* Model of BalTrj.py: a straight-line script that converts the launch     *)
(* parameters, builds the time grid, integrates the equations of motion,   *)
(* walks the sample table (apex bracket m, truncation index n), and        *)
(* refines the apex and the impact by 3-point Lagrange interpolation.      *)
(*                                                                         *)
(* Reals are exact fractions <<num, den>> with den > 0.  <<0, 0>> stands   *)
(* for any non-finite float (NaN, +inf, -inf) produced by a numpy division *)
(* by zero (numpy float64 division warns, it does not raise); <<1, 0>>     *)
(* and <<-1, 0>> are +inf and -inf where the sign matters (arctan).        *)
(* Python float division by zero raises ZeroDivisionError.                 *)
(* Velocities are in units of sqrt(2)/2 m/s so that cos and sin of the     *)
(* modelled launch angles are the integers +1/-1.                          *)
(***************************************************************************)
EXTENDS Integers, Sequences, FiniteSets, TLC

VARIABLES vel, ad, tv, tli, it, dc, t, yint, n, m, out, apex, impact, pc, err

vars == <<vel, ad, tv, tli, it, dc, t, yint, n, m, out, apex, impact, pc, err>>

\* ---- bounds of the model ------------------------------------------------
MaxTli == 4       \* longest simulated duration drawn by Init
RefineTli == 3    \* duration used by the refinement specification

VelSet == {-1, 0, 1}
AdSet == {45, 135}
TvSet == {-1, 0, 2}
TliSet == (-1)..MaxTli
ItSet == {-1, 0, 1, 2}
VySet == {-1, 1}
YSet == {-1, 1, 2}
YRefine == {-1, 1}
XRefine == {0, 1, 2}
VxRefine == {-1, 0, 1}

\* ---- arithmetic helpers ---------------------------------------------------
Abs(a) == IF a < 0 THEN -a ELSE a

Sgn(a) == IF a < 0 THEN -1 ELSE IF a > 0 THEN 1 ELSE 0

RECURSIVE Gcd(_, _)
Gcd(a, b) == IF b = 0 THEN a ELSE Gcd(b, a % b)

NaN == <<0, 0>>

IsFinite(f) == f[2] # 0

Norm(f) == IF f[2] < 0 THEN <<-f[1], -f[2]>> ELSE f

\* int(x) of Python: truncation toward zero of the float p/q, q # 0
Trunc(p, q) == Sgn(p) * Sgn(q) * (Abs(p) \div Abs(q))

\* exact comparison of two fractions
FracEq(f, g) == IsFinite(f) /\ IsFinite(g) /\ f[1] * g[2] = g[1] * f[2]


\* IEEE division of two floats held in numpy float64 (no exception):
\* x/0 is +inf or -inf, 0/0 and anything non-finite is NaN.  Zero is unsigned.
FDiv(a, b) ==
    IF ~IsFinite(a) \/ ~IsFinite(b) THEN NaN
    ELSE IF b[1] = 0 THEN <<Sgn(a[1]), 0>>
    ELSE Norm(<<a[1] * b[2], a[2] * b[1]>>)

\* a^2 + b^2
FSumSq(a, b) ==
    IF ~IsFinite(a) \/ ~IsFinite(b) THEN NaN
    ELSE <<a[1] * a[1] * b[2] * b[2] + b[1] * b[1] * a[2] * a[2], a[2] * a[2] * b[2] * b[2]>>

\* An angle is held as the direction <<dx, dy>> it points to, reduced to
\* lowest terms; NaN is the undefined angle.
Dir(dx, dy) ==
    LET g == Gcd(Abs(dx), Abs(dy))
    IN  <<Sgn(dx) * (Abs(dx) \div g), Sgn(dy) * (Abs(dy) \div g)>>

\* np.degrees(np.arctan(r)): the result lies in [-90, 90] degrees
Arctan(r) ==
    IF r = NaN THEN NaN
    ELSE IF r[2] = 0 THEN <<0, r[1]>>
    ELSE Dir(r[2], r[1])

\* the quadrant-aware atan2(y, x) in degrees, for finite y and x
Atan2(y, x) ==
    IF ~IsFinite(y) \/ ~IsFinite(x) THEN NaN
    ELSE IF y[1] = 0 /\ x[1] = 0 THEN <<1, 0>>
    ELSE Dir(x[1] * y[2], y[1] * x[2])

\* ---- input conversion (lines 12-24) ----------------------------------
gc == 980665      \* 9.80665 m/s2 in units of 1e-5

CosU(a) == IF a = 45 THEN 1 ELSE -1

SinU(a) == 1

vx0 == vel * CosU(ad)

vy0 == vel * SinU(ad)

Sample(vx, vy, x, y) == [vx |-> vx, vy |-> vy, x |-> x, y |-> y, nan |-> FALSE]

NaNSample == [vx |-> 0, vy |-> 0, x |-> 0, y |-> 0, nan |-> TRUE]

y0 == Sample(vx0, vy0, 0, 0)

\* ---- time grid (line 26) -----------------------------------------------
\* np.linspace(0, stop, num): num points, evenly spaced from 0 to stop
\* inclusive (step = stop/(num-1)); a single point is the start.
Linspace(stop, num) ==
    [k \in 1..num |-> IF num = 1 THEN <<0, 1>> ELSE <<(k - 1) * stop, num - 1>>]

\* int(tli/it + 1), it # 0
NumPoints == Trunc(tli + it, it)

\* ---- equations of motion (lines 29-39) -----------------------------------
\* vu = vv/vn is 0/0 (NaN) when the speed is zero; otherwise derv is defined
dervDefined(s) == s.vx * s.vx + s.vy * s.vy # 0

\* ---- integrator output (line 43) ----------------------------------------
\* odeint returns one row per grid point; row 0 is y0.  The other rows are
\* the solver's output, drawn here from bounded sets.
LeanTables(N) ==
    { [k \in 1..N |-> IF k = 1 THEN y0
                      ELSE Sample(vx0, f[k][1], (k - 1) * vx0, f[k][2])] :
        f \in [2..N -> VySet \X YSet] }

XTables(N) ==
    { [k \in 1..N |-> IF k = 1 THEN y0
                      ELSE Sample(vx0, f[k][1], f[k][3], f[k][2])] :
        f \in [2..N -> VySet \X YRefine \X XRefine] }

VxTables(N) ==
    { [k \in 1..N |-> IF k = 1 THEN y0
                      ELSE Sample(f[k][3], f[k][1], (k - 1) * vx0, f[k][2])] :
        f \in [2..N -> VySet \X YRefine \X VxRefine] }

NaNTable(N) == [k \in 1..N |-> IF k = 1 THEN y0 ELSE NaNSample]

\* ---- table access ----------------------------------------------------------
\* numpy index i of an N-row array: negative indices count from the end
InRange(i) == -Len(yint) <= i /\ i <= Len(yint) - 1

Row(i) == yint[(IF i < 0 THEN i + Len(yint) ELSE i) + 1]

Time(i) == t[(IF i < 0 THEN i + Len(t) ELSE i) + 1]

\* ---- scan loop tests (lines 52, 54) ------------------------------------
\* yint[k,1]*yint[k+1,1] < 0.0 (a comparison with NaN is False)
SignChange(k) ==
    /\ ~Row(k).nan
    /\ ~Row(k + 1).nan
    /\ Row(k).vy * Row(k + 1).vy < 0

\* a scan whose altitude test also halts on a sample exactly at ground level
BelowGroundLe(x) == ~x.nan /\ x.y <= 0

\* x[3] < 0.0
BelowGround(x) == ~x.nan /\ x.y < 0

\* ---- scipy.interpolate.lagrange through 3 points ------------------------
\* The polynomial a*u^2 + b*u + c through (xs[i], ys[i]/s), as integer
\* numerators over the common denominator d = s*(x1-x2)(x1-x3)(x2-x3).
\* lagrange divides by each xs[j]-xs[k]: when two abscissas coincide every
\* coefficient is non-finite (d = 0).
lagrange(xs, ys, s) ==
    LET x1 == xs[1]
        x2 == xs[2]
        x3 == xs[3]
        w1 == ys[1] * (x2 - x3)
        w2 == ys[2] * (x1 - x3)
        w3 == ys[3] * (x1 - x2)
    IN  [a |-> w1 - w2 + w3,
         b |-> -(w1 * (x2 + x3)) + w2 * (x1 + x3) - w3 * (x1 + x2),
         c |-> w1 * x2 * x3 - w2 * x1 * x3 + w3 * x1 * x2,
         d |-> s * (x1 - x2) * (x1 - x3) * (x2 - x3)]

\* p(u): evaluation of the polynomial at the fraction u
PolyAt(p, u) ==
    IF p.d = 0 \/ ~IsFinite(u) THEN NaN
    ELSE Norm(<<p.a * u[1] * u[1] + p.b * u[1] * u[2] + p.c * u[2] * u[2],
                p.d * u[2] * u[2]>>)

\* -p[1]/(2.0*p[2]): non-finite when the fit is degenerate or has no x^2 term
HighX(p) ==
    IF p.d = 0 \/ p.a = 0 THEN NaN ELSE Norm(<<-p.b, 2 * p.a>>)

Zero == <<0, 1>>

\* ---- the program -----------------------------------------------------------
Init ==
    /\ vel \in VelSet
    /\ ad \in AdSet
    /\ tv \in TvSet
    /\ tli \in TliSet
    /\ it \in ItSet
    /\ dc = <<>>
    /\ t = <<>>
    /\ yint = <<>>
    /\ n = 0
    /\ m = 0
    /\ out = <<>>
    /\ apex = <<>>
    /\ impact = <<>>
    /\ pc = "convert"
    /\ err = ""

\* lines 19-24: dc = gc/tv**2 is a Python float division
Convert ==
    /\ pc = "convert"
    /\ err = ""
    /\ IF tv = 0
       THEN /\ err' = "ZeroDivisionError"
            /\ UNCHANGED <<dc, pc>>
       ELSE /\ dc' = << <<gc, tv * tv>> >>
            /\ pc' = "grid"
            /\ err' = err
    /\ UNCHANGED <<vel, ad, tv, tli, it, t, yint, n, m, out, apex, impact>>

\* line 26: t = np.linspace(0, tli, tli/it + 1).  tli/it is a Python float
\* division; linspace truncates the float count with int() (the numpy the
\* script's recorded output was produced with) and rejects a negative count.
Grid ==
    /\ pc = "grid"
    /\ err = ""
    /\ IF it = 0
       THEN /\ err' = "ZeroDivisionError"
            /\ UNCHANGED <<t, pc>>
       ELSE IF NumPoints < 0
       THEN /\ err' = "ValueError"
            /\ UNCHANGED <<t, pc>>
       ELSE /\ t' = Linspace(tli, NumPoints)
            /\ pc' = "integrate"
            /\ err' = err
    /\ UNCHANGED <<vel, ad, tv, tli, it, dc, yint, n, m, out, apex, impact>>

\* lines 41-43: yint = odeint(derv, y0, t).  With an empty grid the solver
\* either raises or returns an empty table; with zero launch speed derv
\* returns NaN and the rows after y0 are NaN.
Integrate ==
    /\ pc = "integrate"
    /\ err = ""
    /\ IF Len(t) = 0
       THEN \E raises \in BOOLEAN :
              IF raises
              THEN /\ err' = "OdeintError"
                   /\ UNCHANGED <<yint, pc>>
              ELSE /\ yint' = <<>>
                   /\ pc' = "scan"
                   /\ err' = err
       ELSE /\ IF dervDefined(y0)
               THEN yint' \in LeanTables(Len(t))
               ELSE yint' = NaNTable(Len(t))
            /\ pc' = "scan"
            /\ err' = err
    /\ UNCHANGED <<vel, ad, tv, tli, it, dc, t, n, m, out, apex, impact>>

\* lines 51-62: one iteration of "for x in yint" (x = yint[n]), or the end
\* of the loop when the table is exhausted.  The sign test reads yint[n+1]
\* before the altitude test; m is assigned at every sign change.
ScanStep ==
    /\ pc = "scan"
    /\ err = ""
    /\ IF n >= Len(yint)
       THEN /\ pc' = "apex"
            /\ UNCHANGED <<n, m, out, err>>
       ELSE IF ~InRange(n + 1)
       THEN /\ err' = "IndexError"
            /\ UNCHANGED <<n, m, out, pc>>
       ELSE /\ m' = IF SignChange(n) THEN n ELSE m
            /\ err' = err
            /\ IF BelowGround(Row(n))
               THEN /\ pc' = "apex"
                    /\ UNCHANGED <<n, out>>
               ELSE /\ out' = Append(out, [time |-> Time(n), s |-> Row(n)])
                    /\ n' = n + 1
                    /\ pc' = pc
    /\ UNCHANGED <<vel, ad, tv, tli, it, dc, t, yint, apex, impact>>

\* common denominator of the grid times, and a time's numerator over it
TDen == IF Len(t) > 1 THEN Len(t) - 1 ELSE 1

TNum(i) == Time(i)[1]

\* lines 65-91: apex bracket m-1, m, m+1 and its three quadratic fits
ApexRecord ==
    LET lhv == <<Row(m - 1).vx, Row(m).vx, Row(m + 1).vx>>
        lhx == <<Row(m - 1).x, Row(m).x, Row(m + 1).x>>
        lhy == <<Row(m - 1).y, Row(m).y, Row(m + 1).y>>
        lht == <<TNum(m - 1), TNum(m), TNum(m + 1)>>
        phyx == lagrange(lhx, lhy, 1)
        hx == HighX(phyx)
        hy == PolyAt(phyx, hx)
        ht == PolyAt(lagrange(lhx, lht, TDen), hx)
        hv == PolyAt(lagrange(lhx, lhv, 1), hx)
    IN  [time |-> ht, speed |-> hv, angle |-> <<1, 0>>, altitude |-> hy,
         distance |-> hx, bracket |-> <<m - 1, m, m + 1>>]

ApexRefine ==
    /\ pc = "apex"
    /\ err = ""
    /\ IF ~(InRange(m - 1) /\ InRange(m) /\ InRange(m + 1))
       THEN /\ err' = "IndexError"
            /\ UNCHANGED <<apex, pc>>
       ELSE /\ apex' = <<ApexRecord>>
            /\ pc' = "impact"
            /\ err' = err
    /\ UNCHANGED <<vel, ad, tv, tli, it, dc, t, yint, n, m, out, impact>>

\* lines 95-119: impact bracket n-2, n-1, n, four fits against altitude
\* evaluated at y = 0; iv is kept squared; ia = degrees(arctan(ivy/ivx))
ImpactRecord ==
    LET lvx == <<Row(n - 2).vx, Row(n - 1).vx, Row(n).vx>>
        lvy == <<Row(n - 2).vy, Row(n - 1).vy, Row(n).vy>>
        lgx == <<Row(n - 2).x, Row(n - 1).x, Row(n).x>>
        lgy == <<Row(n - 2).y, Row(n - 1).y, Row(n).y>>
        lgt == <<TNum(n - 2), TNum(n - 1), TNum(n)>>
        xid == PolyAt(lagrange(lgy, lgx, 1), Zero)
        xit == PolyAt(lagrange(lgy, lgt, TDen), Zero)
        ivx == PolyAt(lagrange(lgy, lvx, 1), Zero)
        ivy == PolyAt(lagrange(lgy, lvy, 1), Zero)
    IN  [time |-> xit, speed2 |-> FSumSq(ivx, ivy), angle |-> Arctan(FDiv(ivy, ivx)),
         altitude |-> Zero, distance |-> xid, ivx |-> ivx, ivy |-> ivy,
         bracket |-> <<n - 2, n - 1, n>>]

ImpactRefine ==
    /\ pc = "impact"
    /\ err = ""
    /\ IF ~(InRange(n - 2) /\ InRange(n - 1) /\ InRange(n))
       THEN /\ err' = "IndexError"
            /\ UNCHANGED <<impact, pc>>
       ELSE /\ impact' = <<ImpactRecord>>
            /\ pc' = "done"
            /\ err' = err
    /\ UNCHANGED <<vel, ad, tv, tli, it, dc, t, yint, n, m, out, apex>>

Next == Convert \/ Grid \/ Integrate \/ ScanStep \/ ApexRefine \/ ImpactRefine

Spec == Init /\ [][Next]_vars

\* The runs of the inputs of the documented domain: speed, terminal velocity
\* and duration positive, 0 < interval < duration.
InitValid ==
    /\ Init
    /\ vel > 0
    /\ tv > 0
    /\ 0 < it
    /\ it < tli

SpecValid == InitValid /\ [][Next]_vars

\* The scan and the two refinements applied to richer sample tables of one
\* valid input: horizontal positions or horizontal velocities vary per row.
InitRefine ==
    /\ vel = 1
    /\ ad \in AdSet
    /\ tv = 2
    /\ tli = RefineTli
    /\ it = 1
    /\ dc = << <<gc, tv * tv>> >>
    /\ t = Linspace(tli, NumPoints)
    /\ yint \in XTables(Len(t)) \cup VxTables(Len(t))
    /\ n = 0
    /\ m = 0
    /\ out = <<>>
    /\ apex = <<>>
    /\ impact = <<>>
    /\ pc = "scan"
    /\ err = ""

NextRefine == ScanStep \/ ApexRefine \/ ImpactRefine

SpecRefine == InitRefine /\ [][NextRefine]_vars

TypeOK ==
    /\ pc \in {"convert", "grid", "integrate", "scan", "apex", "impact", "done"}
    /\ err \in {"", "ZeroDivisionError", "ValueError", "OdeintError", "IndexError"}
    /\ n \in 0..Len(yint)
    /\ m \in 0..n
    /\ Len(out) = n

\* ---- vocabulary of the properties ----------------------------------------
N == Len(yint)

\* the run has stopped: an exception was raised or the last line was reached
Terminal == err # "" \/ pc = "done"

\* the loop was left by its break (a non-empty table is never exhausted)
ScanCompleted == pc \in {"apex", "impact", "done"} /\ N > 0

\* the loop has stopped, by its break or by the exception of line 52
ScanStopped == ScanCompleted \/ (pc = "scan" /\ err = "IndexError")

\* sample k (0-based) has negative altitude
Neg(k) == ~yint[k + 1].nan /\ yint[k + 1].y < 0

HasNeg == \E k \in 0..(N - 1) : Neg(k)

FirstNeg == CHOOSE k \in 0..(N - 1) : Neg(k) /\ \A j \in 0..(k - 1) : ~Neg(j)

\* vy changes sign between samples k and k+1 (0-based)
VyFlip(k) ==
    /\ ~yint[k + 1].nan
    /\ ~yint[k + 2].nan
    /\ yint[k + 1].vy * yint[k + 2].vy < 0

\* the sign tests made by a completed scan are those of iterations 0..n
VisitedFlips == {k \in 0..n : k + 1 <= N - 1 /\ VyFlip(k)}

InvalidInput == vel <= 0 \/ tv <= 0 \/ tli <= 0 \/ it <= 0

\* the horizontal positions of the apex bracket are pairwise distinct
ApexXDistinct ==
    /\ Row(m - 1).x # Row(m).x
    /\ Row(m - 1).x # Row(m + 1).x
    /\ Row(m).x # Row(m + 1).x

\* ---- C1 -----------------------------------------------------------------------
\* C1: for every sample table with a negative-altitude sample, once the scan
\* has stopped n is the first index with y[n] < 0, the retained (printed)
\* samples are exactly the samples 0..n-1 in time order, each of them has
\* altitude >= 0, and the sample at n has altitude < 0.
C1_TruncationAtFirstNegative ==
    (ScanStopped /\ HasNeg) =>
        /\ n = FirstNeg
        /\ out = [k \in 1..n |-> [time |-> t[k], s |-> yint[k]]]
        /\ \A k \in 1..n : yint[k].y >= 0
        /\ yint[n + 1].y < 0

\* the loop left by its break after retaining two samples, with a further
\* negative-altitude sample behind the first one
C1_Witness ==
    /\ pc = "apex"
    /\ err = ""
    /\ n >= 2
    /\ \E k \in (n + 1)..(N - 1) : Neg(k)

\* ---- C2 -----------------------------------------------------------------------
\* C2: after the scan, m is the FIRST index with vy[m]*vy[m+1] < 0, also when
\* vy changes sign at more than one visited index.
C2_FirstSignChange ==
    (ScanCompleted /\ VisitedFlips # {}) =>
        (m \in VisitedFlips /\ \A k \in VisitedFlips : m <= k)

\* ---- C3 -----------------------------------------------------------------------
\* C3: if no visited index has a sign change of vy, the run ends in
\* NoApexFound and no apex record is produced.
C3_NoApexFound ==
    (ScanCompleted /\ VisitedFlips = {}) =>
        (apex = <<>> /\ (Terminal => err = "NoApexFound"))

\* ---- C4 -----------------------------------------------------------------------
\* C4: if no sample of the grid has negative altitude, the run ends in
\* NoImpactFound, in no other failure, and produces no impact record.
C4_NoImpactFound ==
    (N > 0 /\ ~HasNeg /\ Terminal) =>
        (err = "NoImpactFound" /\ impact = <<>>)

\* ---- C5 -----------------------------------------------------------------------
\* C5: when m-1 or n-2 would be negative the run ends in InsufficientSamples,
\* and no bracket is ever formed with a negative (wrapping) index.
C5_InsufficientSamples ==
    /\ (ScanCompleted /\ Terminal /\ (m = 0 \/ n < 2)) => err = "InsufficientSamples"
    /\ apex # <<>> => apex[1].bracket[1] >= 0
    /\ impact # <<>> => impact[1].bracket[1] >= 0

\* ---- C6 -----------------------------------------------------------------------
\* C6: if the three horizontal positions of the apex bracket m-1, m, m+1
\* (m >= 1) are not pairwise distinct, apex refinement ends in DegenerateFit
\* and returns no record.
C6_DegenerateFit ==
    (ScanCompleted /\ m >= 1 /\ ~ApexXDistinct /\ (pc # "apex" \/ err # "")) =>
        (err = "DegenerateFit" /\ apex = <<>>)

\* ---- C7 -----------------------------------------------------------------------
\* C7: with a non-positive speed, terminal velocity, duration or interval
\* the run ends in InvalidParameters before the drag coefficient, the grid
\* or any sample is computed.
C7_InvalidParameters ==
    InvalidInput =>
        /\ dc = <<>>
        /\ t = <<>>
        /\ yint = <<>>
        /\ apex = <<>>
        /\ impact = <<>>
        /\ (pc # "convert" \/ err # "") => err = "InvalidParameters"

\* ---- C8 -----------------------------------------------------------------------
\* C8: for 0 < interval < duration the grid has floor(duration/interval) + 1
\* points and its k-th point is k * interval.
C8_GridSpacing ==
    (pc \notin {"convert", "grid"} /\ 0 < it /\ it < tli) =>
        /\ Len(t) = (tli \div it) + 1
        /\ \A k \in 0..(Len(t) - 1) : FracEq(t[k + 1], <<k * it, 1>>)

\* ---- C9 -----------------------------------------------------------------------
\* C9: the impact angle is the quadrant-aware atan2(ivy, ivx) for every pair
\* of impact velocity components interpolated over the bracket n-2, n-1, n
\* (n >= 2).
C9_ImpactAngleAtan2 ==
    (impact # <<>> /\ n >= 2) =>
        impact[1].angle = Atan2(impact[1].ivy, impact[1].ivx)

\* ---- C10 ----------------------------------------------------------------------
\* C10: over a table with a negative-altitude sample the scan never reads a
\* sample index outside 0..N-1 (it raises no IndexError); when the first negative-altitude sample is the last grid
\* sample the scan completes with n = N-1 and m is the index of a retained
\* sample.
C10_ScanReadsInRange ==
    /\ HasNeg => ~(pc = "scan" /\ err = "IndexError")
    /\ (HasNeg /\ FirstNeg = N - 1 /\ Terminal) => (ScanCompleted /\ n = N - 1 /\ m <= n - 1)

====
